---------------------------- MODULE Spec2Model ----------------------------
(***************************************************************************)
(* Model of src/server.js: the call signaling server.                      *)
(*                                                                         *)
(*   POST /sendRingingNotification   validate, one multicast dispatch      *)
(*   POST /acceptCall                validate, transaction on              *)
(*                                   calls/{uid}/activeCall, read of       *)
(*                                   calls/{uid}/devices, ring_ended       *)
(*                                   multicast to the other devices        *)
(*                                                                         *)
(* Every request is a handler that runs synchronously up to its next       *)
(* await; an action of the model is one such segment.  The store           *)
(* transaction is modelled the way the store client runs it: read the      *)
(* node, run the update function on the value read, write if the node is   *)
(* unchanged, and run the update function again on the fresh value if it   *)
(* is not.                                                                 *)
(***************************************************************************)
EXTENDS Integers, Sequences, FiniteSets, TLC

\* Number of requests the server handles in one behaviour.
MaxRequests == 2

Requests == 1..MaxRequests

\* ------------------------------------------------------------------------
\* JavaScript values
\* ------------------------------------------------------------------------

\* A request field that is missing or empty is the empty string: both are
\* falsy, and the handlers only test the fields with `!`.  "undefined" is
\* what Get answers for a property that is not there.
Falsy(v) == v \in {"", "undefined"}

\* null (a store node that does not exist) and undefined (an object
\* property that is not there, an update function returning nothing).
Null == [type |-> "null"]
Undefined == [type |-> "undefined"]

\* obj.k : the property, or "undefined" when the object has none.
Get(obj, k) == IF k \in DOMAIN obj THEN obj[k] ELSE "undefined"

\* obj.k = v : every other property of the object is kept.
Put(obj, k, v) ==
    [x \in DOMAIN obj \cup {k} |-> IF x = k THEN v ELSE obj[x]]

\* ------------------------------------------------------------------------
\* Inputs
\* ------------------------------------------------------------------------

Users == {"u1", "u2"}
CallIds == {"c1", "c2"}
DeviceIds == {"d1", "d2", "d3"}
\* The keys of a snapshot value come in key order; for-in follows it.
DeviceOrder == <<"d1", "d2", "d3">>
PushTokens == {"t1", "t2"}
PushTokenOrder == <<"t1", "t2">>

\* A call record as the ringing collaborator writes it: callId, status and
\* whatever else it stores with them (callerId stands for those fields).
Ringing(c) == [callId |-> c, status |-> "ringing", callerId |-> "caller"]
InProgress(c, d) ==
    [callId |-> c, status |-> "in_progress", callerId |-> "caller",
     acceptedByDeviceId |-> d]
Ended(c) == [callId |-> c, status |-> "ended", callerId |-> "caller"]

\* The records a behaviour starts from: none, a ringing call, a call
\* accepted earlier, a call in some later status.
InitialCallRecords ==
    {Null, Ringing("c1"), InProgress("c1", "d1"), Ended("c1")}

\* A device entry: with a token, with an empty token, or without the field.
DeviceEntries ==
    {[fcmToken |-> t] : t \in PushTokens \cup {""}} \cup {[platform |-> "ios"]}

\* calls/{uid}/devices: null, or a device entry under some device ids.
DeviceDirectories ==
    {Null} \cup UNION {[K -> DeviceEntries] : K \in (SUBSET DeviceIds) \ {{}}}

\* Bodies of POST /acceptCall.
AcceptBody(c, d, u, t, ch) ==
    [callId |-> c, acceptedByDeviceId |-> d, currentUid |-> u,
     token |-> t, channel |-> ch]

ValidAcceptBodies ==
    {AcceptBody(c, d, "u1", "agora", "room") :
        c \in CallIds, d \in {"d1", "d2"}}
    \cup {AcceptBody("c1", "d1", "u2", "agora", "room")}

\* One required field missing or empty.
InvalidAcceptBodies ==
    {AcceptBody("", "d1", "u1", "agora", "room"),
     AcceptBody("c1", "", "u1", "agora", "room"),
     AcceptBody("c1", "d1", "", "agora", "room"),
     AcceptBody("c1", "d1", "u1", "", "room"),
     AcceptBody("c1", "d1", "u1", "agora", "")}

AcceptBodies == ValidAcceptBodies \cup InvalidAcceptBodies

\* Bodies of POST /sendRingingNotification.  fcmTokens is missing, some
\* value that is not an array, or an array of tokens.
Missing == [kind |-> "undefined", items |-> <<>>]
NotArray == [kind |-> "string", items |-> <<>>]
Array(items) == [kind |-> "array", items |-> items]

RingBody(toks, caller, c, ty, ch, t) ==
    [fcmTokens |-> toks, callerId |-> caller, callId |-> c, type |-> ty,
     channel |-> ch, token |-> t]

ValidRingBodies ==
    {RingBody(Array(PushTokenOrder), "caller", "c1", "ringing", "room",
              "agora")}

InvalidRingBodies ==
    {RingBody(toks, "caller", "c1", "ringing", "room", "agora") :
        toks \in {Missing, NotArray, Array(<<>>)}}
    \cup
    {RingBody(Array(<<"t1">>), "", "c1", "ringing", "room", "agora"),
     RingBody(Array(<<"t1">>), "caller", "", "ringing", "room", "agora"),
     RingBody(Array(<<"t1">>), "caller", "c1", "", "room", "agora"),
     RingBody(Array(<<"t1">>), "caller", "c1", "ringing", "", "agora"),
     RingBody(Array(<<"t1">>), "caller", "c1", "ringing", "room", "")}

RingBodies == ValidRingBodies \cup InvalidRingBodies

\* The per-token outcomes of one multicast: success or not, token by token.
Outcomes(n) == [1..n -> BOOLEAN]

\* ------------------------------------------------------------------------
\* State
\* ------------------------------------------------------------------------

VARIABLES
    activeCall,   \* calls/{uid}/activeCall, per user: a call record or Null
    devices,      \* calls/{uid}/devices, per user: a directory or Null
    req,          \* per request: the handler's position and its locals
    res,          \* per request: the responses written to it, in order
    sent,         \* per request: the multicast batches it handed to FCM
    created       \* history: the call records as the server found them

vars == <<activeCall, devices, req, res, sent, created>>

\* A request that has not arrived yet.
NoRequest == [pc |-> "none"]


\* The directories a behaviour starts from.
InitialDirectories ==
    {Null,
     [d1 |-> [fcmToken |-> "t1"], d2 |-> [fcmToken |-> "t2"],
      d3 |-> [platform |-> "ios"]],
     [d2 |-> [fcmToken |-> ""], d3 |-> [fcmToken |-> "t1"]]}

\* What the store holds for one user when the server starts: a call
\* record and a directory.  Only an accepted call reads the directory, so
\* the directories vary under the ringing records.
InitialUserStates ==
    {<<r, Null>> : r \in InitialCallRecords}
    \cup {<<Ringing("c1"), d>> : d \in InitialDirectories}

\* The second user: no call, or one ringing on its devices.
OtherUserStates ==
    {<<Null, Null>>,
     <<Ringing("c1"),
       [d1 |-> [fcmToken |-> "t1"], d2 |-> [fcmToken |-> "t2"],
        d3 |-> [fcmToken |-> "t1"]]>>}

Init ==
    /\ \E s1 \in InitialUserStates, s2 \in OtherUserStates :
           /\ activeCall = [u \in Users |-> IF u = "u1" THEN s1[1] ELSE s2[1]]
           /\ devices = [u \in Users |-> IF u = "u1" THEN s1[2] ELSE s2[2]]
    /\ created = activeCall
    /\ req = [i \in Requests |-> NoRequest]
    /\ res = [i \in Requests |-> <<>>]
    /\ sent = [i \in Requests |-> <<>>]

\* ------------------------------------------------------------------------
\* POST /acceptCall
\* ------------------------------------------------------------------------

\* The validation without the test of channel.
acceptCallValidNoChannel(body) ==
    ~(\/ Falsy(body.callId)
      \/ Falsy(body.acceptedByDeviceId)
      \/ Falsy(body.currentUid)
      \/ Falsy(body.token))

\* The validation of the body.
acceptCallValid(body) ==
    ~(\/ Falsy(body.callId)
      \/ Falsy(body.acceptedByDeviceId)
      \/ Falsy(body.currentUid)
      \/ Falsy(body.token)
      \/ Falsy(body.channel))

\* The update function writing a record where there is none.
transactionUpdateCreates(currentData, callId, acceptedByDeviceId) ==
    IF currentData = Null
    THEN [callId |-> callId, status |-> "in_progress",
          acceptedByDeviceId |-> acceptedByDeviceId]
    ELSE IF Get(currentData, "callId") # callId
    THEN Undefined
    ELSE IF Get(currentData, "status") # "ringing"
    THEN Undefined
    ELSE Put(Put(currentData, "status", "in_progress"),
             "acceptedByDeviceId", acceptedByDeviceId)

\* The update function setting the status alone.
transactionUpdateStatusOnly(currentData, callId, acceptedByDeviceId) ==
    IF currentData = Null \/ Get(currentData, "callId") # callId
    THEN Undefined
    ELSE IF Get(currentData, "status") # "ringing"
    THEN Undefined
    ELSE Put(currentData, "status", "in_progress")

\* The update function without Case 2: the status is not looked at.
transactionUpdateNoStatusCheck(currentData, callId, acceptedByDeviceId) ==
    IF currentData = Null \/ Get(currentData, "callId") # callId
    THEN Undefined
    ELSE Put(Put(currentData, "status", "in_progress"),
             "acceptedByDeviceId", acceptedByDeviceId)

\* The update function letting the device that accepted accept again.
transactionUpdateSameDevice(currentData, callId, acceptedByDeviceId) ==
    IF currentData = Null \/ Get(currentData, "callId") # callId
    THEN Undefined
    ELSE IF /\ Get(currentData, "status") # "ringing"
            /\ Get(currentData, "acceptedByDeviceId") # acceptedByDeviceId
    THEN Undefined
    ELSE Put(Put(currentData, "status", "in_progress"),
             "acceptedByDeviceId", acceptedByDeviceId)

\* The update function returning a new object instead of currentData.
transactionUpdateFreshObject(currentData, callId, acceptedByDeviceId) ==
    IF currentData = Null \/ Get(currentData, "callId") # callId
    THEN Undefined
    ELSE IF Get(currentData, "status") # "ringing"
    THEN Undefined
    ELSE [callId |-> callId, status |-> "in_progress",
          acceptedByDeviceId |-> acceptedByDeviceId]

\* The update function of the transaction: Undefined aborts it, a record
\* is the value to write.
transactionUpdate(currentData, callId, acceptedByDeviceId) ==
    IF currentData = Null \/ Get(currentData, "callId") # callId
    THEN Undefined
    ELSE IF Get(currentData, "status") # "ringing"
    THEN Undefined
    ELSE Put(Put(currentData, "status", "in_progress"),
             "acceptedByDeviceId", acceptedByDeviceId)

\* The answer taking every status but ringing for an accepted call.
notCommittedResponseNotRinging(snapshot) ==
    IF snapshot # Null /\ Get(snapshot, "status") # "ringing"
    THEN [status |-> 409,
          body |-> [error |-> "Call already accepted by another device."]]
    ELSE [status |-> 409,
          body |-> [error |-> "Call no longer active or invalid call ID."]]

\* The answer to a transaction that did not commit, from its snapshot.
notCommittedResponse(snapshot) ==
    IF snapshot # Null /\ Get(snapshot, "status") = "in_progress"
    THEN [status |-> 409,
          body |-> [error |-> "Call already accepted by another device."]]
    ELSE [status |-> 409,
          body |-> [error |-> "Call no longer active or invalid call ID."]]

\* The loop without the test on the accepting device.
devicesToNotifyAll(allDevices, acceptedByDeviceId) ==
    LET Collected(deviceIdKey) ==
            /\ deviceIdKey \in DOMAIN allDevices
            /\ ~Falsy(Get(allDevices[deviceIdKey], "fcmToken"))
    IN  SelectSeq(DeviceOrder, Collected)

\* The device ids whose token is collected, in the order of the loop.
devicesToNotify(allDevices, acceptedByDeviceId) ==
    LET Collected(deviceIdKey) ==
            /\ deviceIdKey \in DOMAIN allDevices
            /\ deviceIdKey # acceptedByDeviceId
            /\ ~Falsy(Get(allDevices[deviceIdKey], "fcmToken"))
    IN  SelectSeq(DeviceOrder, Collected)

\* The tokens of the devices other than the one that accepted.
fcmTokensToNotify(allDevices, acceptedByDeviceId) ==
    IF allDevices = Null
    THEN <<>>
    ELSE LET keys == devicesToNotify(allDevices, acceptedByDeviceId)
         IN  [j \in 1..Len(keys) |-> allDevices[keys[j]].fcmToken]

ringEndedMessage(callId, acceptedByDeviceId, fcmTokens) ==
    [data |-> [type |-> "ring_ended", callId |-> callId,
               acceptedByDeviceId |-> acceptedByDeviceId],
     tokens |-> fcmTokens,
     priority |-> "high",
     android |-> [priority |-> "high"],
     content_available |-> TRUE]

acceptedResponse(body) ==
    [status |-> 200,
     body |-> [message |-> "Call accepted successfully",
               callId |-> body.callId,
               token |-> body.token,
               channel |-> body.channel,
               acceptedByDeviceId |-> body.acceptedByDeviceId]]

acceptErrorResponse ==
    [status |-> 500,
     body |-> [error |-> "Internal server error during call acceptance",
               details |-> "error.message"]]

\* Requests arrive in the order of their numbers.
MayArrive(i) ==
    /\ req[i].pc = "none"
    /\ i > 1 => req[i - 1].pc # "none"

\* res.status(s).json(b) of request i, which ends the handler.
Respond(i, response, locals) ==
    /\ res' = [res EXCEPT ![i] = Append(@, response)]
    /\ req' = [req EXCEPT ![i] = [locals EXCEPT !.pc = "done"]]

\* The handler moves to its next await.
Await(i, locals) ==
    /\ req' = [req EXCEPT ![i] = locals]
    /\ UNCHANGED res

\* The request arrives; the handler validates the body and starts the
\* transaction on calls/{currentUid}/activeCall.  runs counts the calls of
\* the update function.
AcceptCall(i, body) ==
    /\ MayArrive(i)
    /\ LET locals == [pc |-> "transaction", op |-> "acceptCall",
                      body |-> body, runs |-> 0]
       IN  IF ~acceptCallValid(body)
           THEN Respond(i,
                    [status |-> 400,
                     body |-> [error |-> "callId, acceptedByDeviceId, currentUid, token, and channel are all required."]],
                    locals)
           ELSE Await(i, locals)
    /\ UNCHANGED <<activeCall, devices, sent, created>>

\* The handler going on whatever the transaction resolved to.
notCommittedIgnored(transactionResult) == FALSE

\* if (!transactionResult.committed)
notCommitted(transactionResult) == ~transactionResult.committed

\* The 409 without its return: the handler answers and goes on.
AfterTransactionNoReturn(i, locals, transactionResult) ==
    LET resolved == [x \in DOMAIN locals \cup {"transactionResult"} |->
                        IF x = "transactionResult" THEN transactionResult
                        ELSE locals[x]]
    IN  /\ req' = [req EXCEPT ![i] = [resolved EXCEPT !.pc = "once"]]
        /\ res' = IF notCommitted(transactionResult)
                  THEN [res EXCEPT ![i] = Append(@,
                           notCommittedResponse(transactionResult.snapshot))]
                  ELSE res

\* The transaction has resolved: not committed is answered 409, committed
\* goes on to read calls/{currentUid}/devices.
AfterTransaction(i, locals, transactionResult) ==
    LET resolved == [x \in DOMAIN locals \cup {"transactionResult"} |->
                        IF x = "transactionResult" THEN transactionResult
                        ELSE locals[x]]
    IN  IF notCommitted(transactionResult)
        THEN Respond(i, notCommittedResponse(transactionResult.snapshot),
                     resolved)
        ELSE Await(i, [resolved EXCEPT !.pc = "once"])

\* The write comparing the callId of the node alone.
NodeUnchangedSameCall(uid, read) ==
    Get(activeCall[uid], "callId") = Get(read, "callId")

\* The node still holds the value the update function ran on.
NodeUnchanged(uid, read) == activeCall[uid] = read

\* The values transaction() may hand the update function as currentData.
\* The first run is on the value the client holds for the node, before
\* the store is asked: nothing (null) when the node is not cached, and
\* this server never listens on it; the stored record when the client's
\* copy is current.  A rerun is on the value the store sent back.
currentDataOfRun(uid, runs) ==
    IF runs = 0 THEN {Null, activeCall[uid]} ELSE {activeCall[uid]}

\* The promise of transaction() is resolved with result; the handler
\* stays suspended at its await until a later job resumes it.
Resolve(i, runs, result) ==
    Await(i, [pc |-> "transaction_resolved", op |-> "acceptCall",
              body |-> req[i].body, runs |-> runs, resolution |-> result])

\* The transaction runs the update function.  Returning nothing aborts:
\* the promise is resolved not committed without a write, with the
\* value the function ran on as its snapshot.
TransactionRun(i) ==
    /\ req[i].pc = "transaction"
    /\ \E currentData \in currentDataOfRun(req[i].body.currentUid,
                                           req[i].runs) :
           LET body == req[i].body
               update == transactionUpdate(currentData, body.callId,
                                           body.acceptedByDeviceId)
               locals == [req[i] EXCEPT !.runs = @ + 1]
           IN  IF update = Undefined
               THEN Resolve(i, locals.runs,
                            [committed |-> FALSE, snapshot |-> currentData])
               ELSE Await(i, [pc |-> "transaction_write",
                              op |-> "acceptCall", body |-> body,
                              runs |-> locals.runs, read |-> currentData])
    /\ UNCHANGED <<activeCall, devices, sent, created>>

\* The new value is written if the node is unchanged: the promise is
\* resolved committed, with the value written as its snapshot.
TransactionCommit(i) ==
    /\ req[i].pc = "transaction_write"
    /\ LET body == req[i].body
           update == transactionUpdate(req[i].read, body.callId,
                                       body.acceptedByDeviceId)
       IN  /\ NodeUnchanged(body.currentUid, req[i].read)
           /\ activeCall' = [activeCall EXCEPT ![body.currentUid] = update]
           /\ Resolve(i, req[i].runs,
                      [committed |-> TRUE, snapshot |-> update])
    /\ UNCHANGED <<devices, sent, created>>

\* The node changed since it was read: the update function runs again,
\* on the fresh value.
TransactionRetry(i) ==
    /\ req[i].pc = "transaction_write"
    /\ ~NodeUnchanged(req[i].body.currentUid, req[i].read)
    /\ Await(i, [pc |-> "transaction", op |-> "acceptCall",
                 body |-> req[i].body, runs |-> req[i].runs])
    /\ UNCHANGED <<activeCall, devices, sent, created>>

\* The handler resumes after its await with the value the promise was
\* resolved with, bound to transactionResult.
TransactionResolved(i) ==
    /\ req[i].pc = "transaction_resolved"
    /\ AfterTransaction(i,
           [pc |-> "transaction", op |-> "acceptCall", body |-> req[i].body,
            runs |-> req[i].runs],
           req[i].resolution)
    /\ UNCHANGED <<activeCall, devices, sent, created>>

\* The transaction rejects (the store cannot be reached): nothing is
\* written and the outer catch answers 500.
TransactionFail(i) ==
    /\ req[i].pc \in {"transaction", "transaction_write"}
    /\ Respond(i, acceptErrorResponse,
               [pc |-> "done", op |-> "acceptCall", body |-> req[i].body,
                runs |-> req[i].runs])
    /\ UNCHANGED <<activeCall, devices, sent, created>>

\* The devices snapshot arrives.  With tokens to notify the ring_ended
\* multicast is handed to FCM; without, the handler answers 200.
DevicesRead(i) ==
    /\ req[i].pc = "once"
    /\ LET body == req[i].body
           allDevices == devices[body.currentUid]
           fcmTokens == fcmTokensToNotify(allDevices, body.acceptedByDeviceId)
           locals == [x \in DOMAIN req[i] \cup {"allDevices"} |->
                         IF x = "allDevices" THEN allDevices ELSE req[i][x]]
       IN  IF allDevices # Null /\ Len(fcmTokens) > 0
           THEN /\ sent' = [sent EXCEPT ![i] = Append(@,
                        ringEndedMessage(body.callId, body.acceptedByDeviceId,
                                         fcmTokens))]
                /\ Await(i, [locals EXCEPT !.pc = "sendEachForMulticast"])
           ELSE /\ Respond(i, acceptedResponse(body), locals)
                /\ UNCHANGED sent
    /\ UNCHANGED <<activeCall, devices, created>>

\* The read of the devices rejects: the outer catch answers 500.
DevicesReadFail(i) ==
    /\ req[i].pc = "once"
    /\ Respond(i, acceptErrorResponse, req[i])
    /\ UNCHANGED <<activeCall, devices, sent, created>>

\* const fcmResponse = await ...: the per-token outcomes are logged.
WithFcmResponse(locals, outcomes) ==
    [x \in DOMAIN locals \cup {"fcmResponse"} |->
        IF x = "fcmResponse" THEN outcomes ELSE locals[x]]

\* catch (fcmError): the error is logged.
WithFcmError(locals) ==
    [x \in DOMAIN locals \cup {"fcmError"} |->
        IF x = "fcmError" THEN "error" ELSE locals[x]]

\* The ring_ended multicast resolves, with whatever per-token outcomes;
\* the handler answers 200.
RingEndedSent(i, outcomes) ==
    /\ req[i].pc = "sendEachForMulticast"
    /\ req[i].op = "acceptCall"
    /\ outcomes \in Outcomes(Len(sent[i][1].tokens))
    /\ Respond(i, acceptedResponse(req[i].body),
               WithFcmResponse(req[i], outcomes))
    /\ UNCHANGED <<activeCall, devices, sent, created>>

\* The ring_ended multicast rejects and the error reaches the outer catch.
RingEndedFailSurfaced(i) ==
    /\ req[i].pc = "sendEachForMulticast"
    /\ req[i].op = "acceptCall"
    /\ Respond(i, acceptErrorResponse, WithFcmError(req[i]))
    /\ UNCHANGED <<activeCall, devices, sent, created>>

\* The ring_ended multicast rejects: the inner catch swallows the error
\* and the handler answers 200.
RingEndedFail(i) ==
    /\ req[i].pc = "sendEachForMulticast"
    /\ req[i].op = "acceptCall"
    /\ Respond(i, acceptedResponse(req[i].body), WithFcmError(req[i]))
    /\ UNCHANGED <<activeCall, devices, sent, created>>

\* ------------------------------------------------------------------------
\* POST /sendRingingNotification
\* ------------------------------------------------------------------------

\* The validation letting an empty array through.
sendRingingInvalidAllowsEmpty(body) ==
    IF \/ body.fcmTokens.kind = "undefined"
       \/ body.fcmTokens.kind # "array"
    THEN 1
    ELSE IF \/ Falsy(body.callerId)
            \/ Falsy(body.callId)
            \/ Falsy(body.type)
            \/ Falsy(body.channel)
            \/ Falsy(body.token)
    THEN 2
    ELSE 0

\* The two validations of the body, in order; 0 when it passes both.
sendRingingInvalid(body) ==
    IF \/ body.fcmTokens.kind = "undefined"
       \/ body.fcmTokens.kind # "array"
       \/ Len(body.fcmTokens.items) = 0
    THEN 1
    ELSE IF \/ Falsy(body.callerId)
            \/ Falsy(body.callId)
            \/ Falsy(body.type)
            \/ Falsy(body.channel)
            \/ Falsy(body.token)
    THEN 2
    ELSE 0

ringingMessage(body) ==
    [data |-> [type |-> body.type, callerId |-> body.callerId,
               callId |-> body.callId, channel |-> body.channel,
               token |-> body.token],
     tokens |-> body.fcmTokens.items,
     priority |-> "high",
     android |-> [priority |-> "high"],
     content_available |-> TRUE]

\* responses.filter(r => r.success).length
successfulSends(responses) ==
    Cardinality({j \in DOMAIN responses : responses[j]})

\* The filter keeping the successes.
failedSendsInverted(responses) ==
    SelectSeq(responses, LAMBDA r : r)

\* responses.filter(r => !r.success)
failedSends(responses) ==
    SelectSeq(responses, LAMBDA r : ~r)

ringingResponse(responses) ==
    [status |-> 200,
     body |-> [message |-> "Ringing notifications sent successfully",
               successCount |-> successfulSends(responses),
               failureCount |-> Len(failedSends(responses)),
               details |-> responses]]

\* The request arrives; the handler validates the body and hands the
\* multicast to FCM.
SendRingingNotification(i, body) ==
    /\ MayArrive(i)
    /\ LET locals == [pc |-> "sendEachForMulticast",
                      op |-> "sendRingingNotification", body |-> body]
           invalid == sendRingingInvalid(body)
       IN  IF invalid = 1
           THEN /\ Respond(i,
                     [status |-> 400,
                      body |-> [error |-> "fcmTokens (array) is required and must not be empty"]],
                     locals)
                /\ UNCHANGED sent
           ELSE IF invalid = 2
           THEN /\ Respond(i,
                     [status |-> 400,
                      body |-> [error |-> "callerId, callId, type, channel, and token are all required for a ringing notification."]],
                     locals)
                /\ UNCHANGED sent
           ELSE /\ Await(i, locals)
                /\ sent' = [sent EXCEPT ![i] = Append(@, ringingMessage(body))]
    /\ UNCHANGED <<activeCall, devices, created>>

\* const response = await ...: the multicast's per-token outcomes.
WithResponse(locals, responses) ==
    [x \in DOMAIN locals \cup {"response"} |->
        IF x = "response" THEN responses ELSE locals[x]]

\* The multicast resolves with its per-token outcomes: 200 with the counts.
RingingSent(i, responses) ==
    /\ req[i].pc = "sendEachForMulticast"
    /\ req[i].op = "sendRingingNotification"
    /\ responses \in Outcomes(Len(sent[i][1].tokens))
    /\ Respond(i, ringingResponse(responses), WithResponse(req[i], responses))
    /\ UNCHANGED <<activeCall, devices, sent, created>>

\* The multicast rejects: 500.
RingingFail(i) ==
    /\ req[i].pc = "sendEachForMulticast"
    /\ req[i].op = "sendRingingNotification"
    /\ Respond(i,
           [status |-> 500,
            body |-> [error |-> "Failed to send ringing notifications",
                      details |-> "error.message"]],
           req[i])
    /\ UNCHANGED <<activeCall, devices, sent, created>>

\* ------------------------------------------------------------------------
\* The server
\* ------------------------------------------------------------------------

Next ==
    \E i \in Requests :
        \/ \E body \in AcceptBodies : AcceptCall(i, body)
        \/ TransactionRun(i)
        \/ TransactionCommit(i)
        \/ TransactionRetry(i)
        \/ TransactionResolved(i)
        \/ TransactionFail(i)
        \/ DevicesRead(i)
        \/ DevicesReadFail(i)
        \/ \E outcomes \in UNION {Outcomes(n) : n \in 1..Len(DeviceOrder)} :
               RingEndedSent(i, outcomes)
        \/ RingEndedFail(i)
        \/ \E body \in RingBodies : SendRingingNotification(i, body)
        \/ \E responses \in Outcomes(Len(PushTokenOrder)) :
               RingingSent(i, responses)
        \/ RingingFail(i)

Spec == Init /\ [][Next]_vars

\* ------------------------------------------------------------------------
\* One accepted call over every directory: the first request accepts the
\* ringing call of u1, whose directory is any directory over the device
\* ids.
\* ------------------------------------------------------------------------

InitDirectory ==
    /\ activeCall = [u \in Users |-> IF u = "u1" THEN Ringing("c1") ELSE Null]
    /\ \E d \in DeviceDirectories :
           devices = [u \in Users |-> IF u = "u1" THEN d ELSE Null]
    /\ created = activeCall
    /\ req = [i \in Requests |-> NoRequest]
    /\ res = [i \in Requests |-> <<>>]
    /\ sent = [i \in Requests |-> <<>>]

NextDirectory ==
    \/ \E d \in DeviceIds :
           AcceptCall(1, AcceptBody("c1", d, "u1", "agora", "room"))
    \/ TransactionRun(1)
    \/ TransactionCommit(1)
    \/ TransactionResolved(1)
    \/ DevicesRead(1)
    \/ \E outcomes \in UNION {Outcomes(n) : n \in 1..Len(DeviceOrder)} :
           RingEndedSent(1, outcomes)
    \/ RingEndedFail(1)

SpecDirectory == InitDirectory /\ [][NextDirectory]_vars

\* ------------------------------------------------------------------------
\* Properties
\* ------------------------------------------------------------------------

\* The server when every awaited call returns or throws: each request
\* that is waiting on the transaction, on the read of the devices or on a
\* multicast is eventually resumed.  The requests run against one ringing
\* record and a directory of three devices.
LiveAcceptBodies ==
    {AcceptBody("c1", d, "u1", "agora", "room") : d \in {"d1", "d2"}}
    \cup {AcceptBody("c2", "d1", "u1", "agora", "room"),
          AcceptBody("c1", "d1", "u1", "", "room")}

LiveRingBodies ==
    ValidRingBodies
    \cup {RingBody(Array(<<>>), "caller", "c1", "ringing", "room", "agora")}

InitLive ==
    /\ activeCall = [u \in Users |-> IF u = "u1" THEN Ringing("c1") ELSE Null]
    /\ devices = [u \in Users |->
                     IF u = "u1"
                     THEN [d1 |-> [fcmToken |-> "t1"],
                           d2 |-> [fcmToken |-> "t2"],
                           d3 |-> [platform |-> "ios"]]
                     ELSE Null]
    /\ created = activeCall
    /\ req = [i \in Requests |-> NoRequest]
    /\ res = [i \in Requests |-> <<>>]
    /\ sent = [i \in Requests |-> <<>>]

\* An awaited call of request i returns or throws.
Resumes(i) ==
    \/ TransactionRun(i)
    \/ TransactionCommit(i)
    \/ TransactionRetry(i)
    \/ TransactionResolved(i)
    \/ TransactionFail(i)
    \/ DevicesRead(i)
    \/ DevicesReadFail(i)
    \/ \E outcomes \in UNION {Outcomes(n) : n \in 1..Len(DeviceOrder)} :
           RingEndedSent(i, outcomes)
    \/ RingEndedFail(i)
    \/ \E responses \in Outcomes(Len(PushTokenOrder)) :
           RingingSent(i, responses)
    \/ RingingFail(i)

NextLive ==
    \E i \in Requests :
        \/ \E body \in LiveAcceptBodies : AcceptCall(i, body)
        \/ \E body \in LiveRingBodies : SendRingingNotification(i, body)
        \/ Resumes(i)

SpecLive ==
    /\ InitLive
    /\ [][NextLive]_vars
    /\ \A i \in Requests : WF_vars(Resumes(i))

\* The two handlers on every shape of body: each field of req.body is
\* missing ("undefined"), empty, or a value; fcmTokens is missing, not an
\* array, or an array of none, one or two tokens.
Blank == {"undefined", ""}

AnyAcceptBodies ==
    {AcceptBody(c, d, u, t, ch) :
        c \in Blank \cup {"c1"}, d \in Blank \cup {"d1"},
        u \in Blank \cup {"u1"}, t \in Blank \cup {"agora"},
        ch \in Blank \cup {"room"}}

AnyFcmTokens ==
    {Missing, NotArray, Array(<<>>), Array(<<"t1">>), Array(<<"t1", "t2">>),
     Array(<<"t2", "t1">>)}

AnyRingBodies ==
    {RingBody(toks, caller, c, ty, ch, t) :
        toks \in AnyFcmTokens, caller \in Blank \cup {"caller"},
        c \in Blank \cup CallIds, ty \in Blank \cup {"ringing", "video"},
        ch \in Blank \cup {"room"}, t \in Blank \cup {"agora"}}

InitValidation ==
    /\ activeCall = [u \in Users |-> IF u = "u1" THEN Ringing("c1") ELSE Null]
    /\ devices = [u \in Users |->
                     IF u = "u1"
                     THEN [d1 |-> [fcmToken |-> "t1"],
                           d2 |-> [fcmToken |-> "t2"]]
                     ELSE Null]
    /\ created = activeCall
    /\ req = [i \in Requests |-> NoRequest]
    /\ res = [i \in Requests |-> <<>>]
    /\ sent = [i \in Requests |-> <<>>]

NextValidation ==
    \/ \E body \in AnyAcceptBodies : AcceptCall(1, body)
    \/ TransactionRun(1)
    \/ TransactionCommit(1)
    \/ TransactionResolved(1)
    \/ TransactionFail(1)
    \/ DevicesRead(1)
    \/ DevicesReadFail(1)
    \/ \E outcomes \in UNION {Outcomes(n) : n \in 1..Len(DeviceOrder)} :
           RingEndedSent(1, outcomes)
    \/ RingEndedFail(1)
    \/ \E body \in AnyRingBodies : SendRingingNotification(1, body)
    \/ \E responses \in UNION {Outcomes(n) : n \in 1..Len(PushTokenOrder)} :
           RingingSent(1, responses)
    \/ RingingFail(1)

SpecValidation == InitValidation /\ [][NextValidation]_vars

IsAccept(i) == req[i].pc # "none" /\ req[i].op = "acceptCall"
ValidAccept(i) == IsAccept(i) /\ acceptCallValid(req[i].body)
\* The transaction of request i has resolved (it did not reject).
Resolved(i) == IsAccept(i) /\ "transactionResult" \in DOMAIN req[i]
Committed(i) == Resolved(i) /\ req[i].transactionResult.committed
\* The promise of request i's transaction has been resolved, whether or
\* not the handler has resumed, and the value it was resolved with.
Settled(i) ==
    IsAccept(i) /\ DOMAIN req[i] \cap {"resolution", "transactionResult"} # {}
Outcome(i) ==
    IF "resolution" \in DOMAIN req[i]
    THEN req[i].resolution ELSE req[i].transactionResult
Won(i) == Settled(i) /\ Outcome(i).committed
Done(i) == req[i].pc = "done"
UidOf(i) == req[i].body.currentUid
CallIdOf(i) == req[i].body.callId
DeviceOf(i) == req[i].body.acceptedByDeviceId

ConflictAccepted ==
    [status |-> 409,
     body |-> [error |-> "Call already accepted by another device."]]
ConflictInactive ==
    [status |-> 409,
     body |-> [error |-> "Call no longer active or invalid call ID."]]

\* The attempts on the call c of user u whose transaction has resolved.
Attempts(u, c) ==
    {i \in Requests : Settled(i) /\ UidOf(i) = u /\ CallIdOf(i) = c}

\* C1: of the AcceptCall requests that run against the record of a user
\* found ringing with their callId, exactly one transaction commits and
\* every other one that resolves resolves not committed, in every
\* interleaving of their reads and writes.  The first run of the update
\* function on a node the client does not hold refutes it: the function
\* returns nothing on null, the transaction resolves not committed, and
\* a request alone on a ringing record leaves it with no commit at all.
C1_ExactlyOneCommits ==
    \A u \in Users, c \in CallIds :
        (created[u] = Ringing(c) /\ Attempts(u, c) # {})
        => Cardinality({i \in Attempts(u, c) : Won(i)}) = 1

\* C2: the record moves from ringing to in_progress and in no other way;
\* once it is in_progress no step changes it, and an attempt for its
\* callId that runs on it is answered 409 without a write.
C2_AcceptedOnce ==
    [][\A u \in Users :
          /\ Get(activeCall[u], "status") = "in_progress"
             => activeCall'[u] = activeCall[u]
          /\ activeCall'[u] # activeCall[u]
             => /\ Get(activeCall[u], "status") = "ringing"
                /\ Get(activeCall'[u], "status") = "in_progress"
                /\ Get(activeCall'[u], "callId") = Get(activeCall[u], "callId")
          /\ \A i \in Requests :
                /\ (/\ req[i].pc = "transaction"
                    /\ UidOf(i) = u
                    /\ Get(activeCall[u], "status") = "in_progress"
                    /\ Get(activeCall[u], "callId") = CallIdOf(i)
                    /\ req'[i].runs = req[i].runs + 1)
                   => /\ req'[i].pc = "transaction_resolved"
                      /\ ~req'[i].resolution.committed
                /\ (/\ req[i].pc = "transaction_resolved"
                    /\ UidOf(i) = u
                    /\ ~req[i].resolution.committed
                    /\ req'[i] # req[i])
                   => /\ req'[i].transactionResult = req[i].resolution
                      /\ req'[i].pc = "done"
                      /\ res'[i] \in {<<ConflictAccepted>>,
                                      <<ConflictInactive>>}
      ]_vars

\* A call accepted by one device, and a later attempt for the same call
\* from another device answered 409 with the record as the first left it.
C2_Witness ==
    \E i, j \in Requests :
        /\ i # j
        /\ Committed(i) /\ Resolved(j) /\ ~Committed(j)
        /\ UidOf(i) = UidOf(j) /\ CallIdOf(i) = CallIdOf(j)
        /\ DeviceOf(i) # DeviceOf(j)
        /\ req[j].runs = 1
        /\ res[j] = <<ConflictAccepted>>
        /\ activeCall[UidOf(i)]
               = Put(Put(created[UidOf(i)], "status", "in_progress"),
                     "acceptedByDeviceId", DeviceOf(i))

\* C3: two requests from different devices for the same ringing record,
\* both transactions resolved and both requests answered: the one that
\* committed is answered 200, the other 409 "Call already accepted by
\* another device." with a snapshot in_progress accepted by the other.
C3_OneAcceptedOneConflict ==
    \A i, j \in Requests :
        (/\ i # j
         /\ Resolved(i) /\ Resolved(j)
         /\ Done(i) /\ Done(j)
         /\ UidOf(i) = UidOf(j) /\ CallIdOf(i) = CallIdOf(j)
         /\ DeviceOf(i) # DeviceOf(j)
         /\ created[UidOf(i)] = Ringing(CallIdOf(i))
         /\ Committed(i))
        => /\ res[i] = <<acceptedResponse(req[i].body)>>
           /\ ~Committed(j)
           /\ res[j] = <<ConflictAccepted>>
           /\ Get(req[j].transactionResult.snapshot, "status") = "in_progress"
           /\ Get(req[j].transactionResult.snapshot, "acceptedByDeviceId")
                  = DeviceOf(i)

\* C4: a request whose transaction committed is answered 200, whatever
\* the read of the devices and the ring_ended dispatch did.
C4_CommittedIsAccepted ==
    \A i \in Requests :
        (Committed(i) /\ Done(i)) => res[i] = <<acceptedResponse(req[i].body)>>

\* The ring_ended dispatch of request i failed: it rejected, or some
\* token of it was not delivered.
DispatchFailed(i) ==
    /\ IsAccept(i)
    /\ \/ "fcmError" \in DOMAIN req[i]
       \/ /\ "fcmResponse" \in DOMAIN req[i]
          /\ \E k \in DOMAIN req[i].fcmResponse : ~req[i].fcmResponse[k]

\* C5: a request whose ring_ended dispatch failed is answered 200 all the
\* same, and the record stays in_progress, accepted by its device.
C5_DispatchFailureSwallowed ==
    \A i \in Requests :
        DispatchFailed(i)
        => /\ res[i] = <<acceptedResponse(req[i].body)>>
           /\ Committed(i)
           /\ Get(activeCall[UidOf(i)], "status") = "in_progress"
           /\ Get(activeCall[UidOf(i)], "acceptedByDeviceId") = DeviceOf(i)
           /\ Get(activeCall[UidOf(i)], "callId") = CallIdOf(i)

\* One request whose dispatch rejected and one whose dispatch reached one
\* token and not the other.
C5_Witness ==
    \E i, j \in Requests :
        /\ IsAccept(i) /\ "fcmError" \in DOMAIN req[i]
        /\ IsAccept(j) /\ "fcmResponse" \in DOMAIN req[j]
        /\ req[j].fcmResponse = <<TRUE, FALSE>>
        /\ Done(i) /\ Done(j)

\* Request i has read calls/{uid}/devices, or is waiting for the read.
TouchedDevices(i) ==
    IsAccept(i) /\ (req[i].pc = "once" \/ "allDevices" \in DOMAIN req[i])

\* C6: an AcceptCall request that has handed a batch to FCM, or has asked
\* for the devices, is one whose own transaction committed (the record
\* shows its device); a request that failed validation, whose transaction
\* aborted or rejected, has sent nothing and has not read the devices.
C6_FanOutOnlyAfterCommit ==
    \A i \in Requests :
        IsAccept(i)
        => /\ (sent[i] # <<>> \/ TouchedDevices(i))
              => /\ Committed(i)
                 /\ Get(activeCall[UidOf(i)], "status") = "in_progress"
                 /\ Get(activeCall[UidOf(i)], "acceptedByDeviceId")
                        = DeviceOf(i)
           /\ Len(sent[i]) <= 1
           /\ \A k \in DOMAIN sent[i] : sent[i][k].data.type = "ring_ended"

\* One request has sent its ring_ended batch after committing while
\* another, for the same call, was answered 409 and sent nothing.
C6_Witness ==
    \E i, j \in Requests :
        /\ i # j
        /\ Committed(i) /\ Len(sent[i]) = 1
        /\ Resolved(j) /\ ~Committed(j) /\ Done(j)
        /\ UidOf(i) = UidOf(j) /\ CallIdOf(i) = CallIdOf(j)
        /\ devices[UidOf(j)] # Null
        /\ sent[j] = <<>>

\* The entries of a directory that are not the accepting device's and
\* hold a token.
Losers(dir, d) ==
    IF dir = Null
    THEN {}
    ELSE {k \in DOMAIN dir :
             /\ k # d
             /\ "fcmToken" \in DOMAIN dir[k]
             /\ dir[k].fcmToken # ""}

\* C7: for the directory a committed request by device D read, the batch
\* goes to one token per entry other than D's that holds a token, and to
\* nothing else; with no such entry no batch is sent and the answer is
\* 200.
C7_FanOutTargets ==
    \A i \in Requests :
        (IsAccept(i) /\ "allDevices" \in DOMAIN req[i])
        => LET dir == req[i].allDevices
               losers == Losers(dir, DeviceOf(i))
           IN  /\ dir = devices[UidOf(i)]
               /\ IF losers = {}
                  THEN /\ sent[i] = <<>>
                       /\ res[i] = <<acceptedResponse(req[i].body)>>
                  ELSE /\ Len(sent[i]) = 1
                       /\ sent[i][1].data =
                              [type |-> "ring_ended", callId |-> CallIdOf(i),
                               acceptedByDeviceId |-> DeviceOf(i)]
                       /\ Len(sent[i][1].tokens) = Cardinality(losers)
                       /\ \A t \in PushTokens :
                              Cardinality({n \in DOMAIN sent[i][1].tokens :
                                              sent[i][1].tokens[n] = t})
                              = Cardinality({k \in losers :
                                                dir[k].fcmToken = t})

\* Scenario E: d1 accepts over {d1: t1, d2: t2, d3: no token} and the
\* batch goes to t2 alone.
C7_Witness ==
    \E i \in Requests :
        /\ IsAccept(i) /\ "allDevices" \in DOMAIN req[i]
        /\ DeviceOf(i) = "d1"
        /\ req[i].allDevices =
               [d1 |-> [fcmToken |-> "t1"], d2 |-> [fcmToken |-> "t2"],
                d3 |-> [platform |-> "ios"]]
        /\ Len(sent[i]) = 1
        /\ sent[i][1].tokens = <<"t2">>

\* C9: when an acceptance has committed, a request with the same callId,
\* device and user does not commit: it is answered 409, sends nothing,
\* and the record is as the commit wrote it.
C9_RetryIsConflict ==
    \A i, j \in Requests :
        (/\ i # j
         /\ Committed(j)
         /\ Resolved(i)
         /\ req[i].body = req[j].body)
        => /\ ~Committed(i)
           /\ res[i] \in {<<ConflictAccepted>>, <<ConflictInactive>>}
           /\ sent[i] = <<>>
           /\ activeCall[UidOf(j)] = req[j].transactionResult.snapshot
           /\ Get(activeCall[UidOf(j)], "acceptedByDeviceId") = DeviceOf(j)

\* The first request was answered 200 and the same request, sent again
\* afterwards, ran its update function once and was answered 409.
C9_Witness ==
    \E i, j \in Requests :
        /\ j < i
        /\ Committed(j) /\ res[j] = <<acceptedResponse(req[j].body)>>
        /\ Resolved(i) /\ req[i].body = req[j].body
        /\ req[i].runs = 1
        /\ Len(sent[j]) = 1
        /\ res[i] = <<ConflictAccepted>>

\* C10: no step writes the directories; a step that changes a call
\* record is the commit of an AcceptCall request for that user, on a
\* record that exists and is ringing: it sets status to in_progress and
\* acceptedByDeviceId to the request's device, keeps callId and every
\* other field, and touches no other user's record.
C10_OnlyTheAcceptWrite ==
    [][/\ devices' = devices
       /\ \A u \in Users :
             activeCall'[u] # activeCall[u]
             => /\ activeCall[u] # Null
                /\ activeCall'[u] # Null
                /\ Get(activeCall[u], "status") = "ringing"
                /\ DOMAIN activeCall'[u]
                      = DOMAIN activeCall[u] \cup {"acceptedByDeviceId"}
                /\ \A k \in DOMAIN activeCall[u] \ {"status", "acceptedByDeviceId"} :
                      activeCall'[u][k] = activeCall[u][k]
                /\ activeCall'[u].status = "in_progress"
                /\ \E i \in Requests :
                      /\ req[i].pc = "transaction_write"
                      /\ UidOf(i) = u
                      /\ activeCall'[u].acceptedByDeviceId = DeviceOf(i)
                      /\ "resolution" \in DOMAIN req'[i]
                      /\ req'[i].resolution.committed
                /\ \A v \in Users \ {u} : activeCall'[v] = activeCall[v]
      ]_vars

\* An accepted call of u1, with the fields the server does not own as
\* they were, beside a ringing notification and an untouched record of u2.
C10_Witness ==
    \E i, j \in Requests :
        /\ Committed(i) /\ UidOf(i) = "u1"
        /\ req[j].pc = "done" /\ req[j].op = "sendRingingNotification"
        /\ Len(sent[j]) = 1
        /\ activeCall["u1"] # created["u1"]
        /\ activeCall["u1"].callerId = created["u1"].callerId
        /\ activeCall["u2"] = created["u2"]
        /\ created["u2"] # Null


\* The record of request i's user is one the accept transition does not
\* apply to: absent, of another callId, or of a status that is not
\* ringing.
NotAcceptable(i) ==
    \/ activeCall[UidOf(i)] = Null
    \/ Get(activeCall[UidOf(i)], "callId") # CallIdOf(i)
    \/ Get(activeCall[UidOf(i)], "status") # "ringing"

\* C11: a run of the update function while the record is absent, of
\* another callId or not ringing aborts: the transaction resolves not
\* committed, its snapshot the record as it is or nothing (a first run
\* on a node the client does not hold), and nothing is written; when the
\* handler resumes with a transaction not committed it answers 409 and
\* ends: it writes nothing, does not read the devices and dispatches
\* nothing.
C11_AbortLeavesRecord ==
    [][/\ \A i \in Requests :
             (/\ req[i].pc = "transaction"
              /\ NotAcceptable(i)
              /\ req'[i].runs = req[i].runs + 1)
             => /\ req'[i].pc = "transaction_resolved"
                /\ ~req'[i].resolution.committed
                /\ req'[i].resolution.snapshot \in {Null, activeCall[UidOf(i)]}
                /\ activeCall' = activeCall
                /\ devices' = devices
                /\ sent' = sent
                /\ res' = res
       /\ \A i \in Requests :
             (/\ req[i].pc = "transaction_resolved"
              /\ ~req[i].resolution.committed
              /\ req'[i] # req[i])
             => /\ req'[i].transactionResult = req[i].resolution
                /\ activeCall' = activeCall
                /\ devices' = devices
                /\ sent' = sent
                /\ sent[i] = <<>>
                /\ req'[i].pc = "done"
                /\ "allDevices" \notin DOMAIN req'[i]
                /\ Len(res'[i]) = 1
                /\ res'[i][1].status = 409
      ]_vars

\* One request aborted on an absent record and another on a record that
\* had ended; both are answered 409, nothing was dispatched and the
\* records are as they were created.
C11_Witness ==
    \E i, j \in Requests :
        /\ i # j
        /\ Resolved(i) /\ Resolved(j)
        /\ req[i].transactionResult.snapshot = Null
        /\ Get(req[j].transactionResult.snapshot, "status") = "ended"
        /\ res[i][1].status = 409 /\ res[j][1].status = 409
        /\ sent[i] = <<>> /\ sent[j] = <<>>
        /\ activeCall = created


\* C12: an AcceptCall request in which callId, acceptedByDeviceId,
\* currentUid, token or channel is missing or empty is answered 400 by the
\* validation, and nothing else happens for it: no run of the
\* transaction, no read of the devices, no dispatch, no write.
C12_InvalidAcceptRejected ==
    \A i \in Requests :
        (/\ IsAccept(i)
         /\ \E f \in {"callId", "acceptedByDeviceId", "currentUid", "token",
                      "channel"} : req[i].body[f] \in {"undefined", ""})
        => /\ Done(i)
           /\ Len(res[i]) = 1
           /\ res[i][1].status = 400
           /\ req[i].runs = 0
           /\ DOMAIN req[i] = {"pc", "op", "body", "runs"}
           /\ sent[i] = <<>>
           /\ activeCall = created

\* A request with an empty channel alone, on a record that rings for its
\* callId, answered 400 with the record still ringing.
C12_Witness ==
    /\ IsAccept(1)
    /\ req[1].body = AcceptBody("c1", "d1", "u1", "agora", "")
    /\ activeCall["u1"] = Ringing("c1")
    /\ res[1] = <<[status |-> 400,
                   body |-> [error |-> "callId, acceptedByDeviceId, currentUid, token, and channel are all required."]]>>


\* No request other than i has committed on the record of i's user.
NoCompetingAcceptance(i) ==
    \A j \in Requests \ {i} : ~(Committed(j) /\ UidOf(j) = UidOf(i))

\* C13: a valid AcceptCall by device D for callId c on a record created
\* ringing for c, with no competing acceptance, whose transaction has
\* resolved and whose handler has ended, is answered 200 and the record
\* is the created one with status in_progress and acceptedByDeviceId D;
\* every 200 echoes the request's callId, acceptedByDeviceId, token and
\* channel; and a 200 is sent only by a request whose own transaction
\* committed D on the record with callId c.
C13_AcceptedAndEchoed ==
    \A i \in Requests :
        /\ (/\ ValidAccept(i)
            /\ Resolved(i)
            /\ Done(i)
            /\ created[UidOf(i)] = Ringing(CallIdOf(i))
            /\ NoCompetingAcceptance(i))
           => /\ Len(res[i]) = 1
              /\ res[i][1].status = 200
              /\ activeCall[UidOf(i)]
                     = Put(Put(created[UidOf(i)], "status", "in_progress"),
                           "acceptedByDeviceId", DeviceOf(i))
        /\ \A k \in DOMAIN res[i] :
               (IsAccept(i) /\ res[i][k].status = 200)
               => /\ res[i][k].body.callId = CallIdOf(i)
                  /\ res[i][k].body.acceptedByDeviceId = DeviceOf(i)
                  /\ res[i][k].body.token = req[i].body.token
                  /\ res[i][k].body.channel = req[i].body.channel
                  /\ Committed(i)
                  /\ Get(req[i].transactionResult.snapshot, "callId")
                         = CallIdOf(i)
                  /\ Get(req[i].transactionResult.snapshot,
                         "acceptedByDeviceId") = DeviceOf(i)


IsRinging(i) == req[i].pc # "none" /\ req[i].op = "sendRingingNotification"

\* The multicast of request i returned its per-token outcomes.
Dispatched(i) == IsRinging(i) /\ "response" \in DOMAIN req[i]

\* C14: a sendRingingNotification request whose multicast returned
\* per-token outcomes is answered 200 with failureCount the number of
\* tokens not delivered, successCount the number delivered and their sum
\* the number of tokens of the request, however many deliveries failed;
\* it is answered 500 only when the multicast as a whole rejected.
C14_PartialFailureIsSuccess ==
    \A i \in Requests :
        /\ Dispatched(i)
           => LET outcomes == req[i].response
                  body == res[i][1].body
              IN  /\ Len(res[i]) = 1
                  /\ res[i][1].status = 200
                  /\ body.failureCount
                         = Cardinality({k \in DOMAIN outcomes : ~outcomes[k]})
                  /\ body.successCount
                         = Cardinality({k \in DOMAIN outcomes : outcomes[k]})
                  /\ body.successCount + body.failureCount
                         = Len(req[i].body.fcmTokens.items)
        /\ (IsRinging(i) /\ Done(i) /\ res[i][1].status = 500)
           => /\ ~Dispatched(i)
              /\ sent[i] # <<>>

\* The partial failure of the specification: of two tokens the first is
\* delivered and the second is not, and the answer is 200 with
\* failureCount 1.
C14_Witness ==
    /\ Dispatched(1)
    /\ req[1].body.fcmTokens.items = <<"t1", "t2">>
    /\ req[1].response = <<TRUE, FALSE>>
    /\ res[1][1].status = 200
    /\ res[1][1].body.failureCount = 1
    /\ res[1][1].body.successCount = 1


\* The body of request i fails the validation of sendRingingNotification,
\* as the claim words it.
RingBodyRejected(body) ==
    \/ body.fcmTokens.kind # "array"
    \/ Len(body.fcmTokens.items) = 0
    \/ \E f \in {"callerId", "callId", "type", "channel", "token"} :
           body[f] \in {"undefined", ""}

\* C15: a sendRingingNotification request whose fcmTokens is missing, not
\* an array or empty, or one of whose callerId, callId, type, channel and
\* token is missing or empty, is answered 400 and dispatches nothing;
\* every other request hands FCM exactly one batch, to exactly its
\* fcmTokens in their order, with type, callerId, callId, channel and
\* token as received; and the handler neither reads nor writes the call
\* record: it holds no transaction local and the record stays as created.
C15_RingingValidatedAndVerbatim ==
    \A i \in Requests :
        IsRinging(i)
        => LET body == req[i].body
           IN  /\ RingBodyRejected(body)
                  => /\ Done(i)
                     /\ Len(res[i]) = 1
                     /\ res[i][1].status = 400
                     /\ sent[i] = <<>>
               /\ ~RingBodyRejected(body)
                  => /\ Len(sent[i]) = 1
                     /\ sent[i][1].tokens = body.fcmTokens.items
                     /\ sent[i][1].data
                            = [type |-> body.type, callerId |-> body.callerId,
                               callId |-> body.callId,
                               channel |-> body.channel,
                               token |-> body.token]
               /\ DOMAIN req[i] \subseteq {"pc", "op", "body", "response"}
               /\ activeCall = created

\* An empty array of tokens answered 400 with nothing sent.
C15_Witness ==
    /\ IsRinging(1)
    /\ req[1].body
           = RingBody(Array(<<>>), "caller", "c1", "ringing", "room", "agora")
    /\ res[1] = <<[status |-> 400,
                   body |-> [error |-> "fcmTokens (array) is required and must not be empty"]]>>
    /\ sent[1] = <<>>


\* C16: the transaction, executed as read, update function, write if the
\* node is unchanged, rerun otherwise, resolves as one atomic
\* read-modify-write: at the step where it resolves, its outcome is that
\* of the update function run once on the value stored at that step
\* (aborted with that value as snapshot and nothing written, or committed
\* with the function's result written and returned); and an attempt whose
\* read is stale writes nothing, so the write that landed in between
\* stays.  The first run on a node the client does not hold refutes the
\* first part: it aborts on null whatever the store holds.
C16_TransactionIsAtomic ==
    [][\A i \in Requests :
          /\ (/\ IsAccept(i)
              /\ "resolution" \notin DOMAIN req[i]
              /\ "resolution" \in DOMAIN req'[i])
             => LET u == UidOf(i)
                    out == transactionUpdate(activeCall[u], CallIdOf(i),
                                             DeviceOf(i))
                    result == req'[i].resolution
                IN  IF out = Undefined
                    THEN /\ ~result.committed
                         /\ result.snapshot = activeCall[u]
                         /\ activeCall' = activeCall
                    ELSE /\ result.committed
                         /\ result.snapshot = out
                         /\ activeCall' = [activeCall EXCEPT ![u] = out]
          /\ (/\ req[i].pc = "transaction_write"
              /\ req[i].read # activeCall[UidOf(i)]
              /\ req'[i] # req[i])
             => activeCall' = activeCall
      ]_vars

\* C17: a request whose transaction resolved not committed is answered
\* 409 "Call already accepted by another device." exactly when the
\* snapshot the transaction returned exists with status in_progress, and
\* 409 "Call no longer active or invalid call ID." in every other case.
C17_ConflictMessage ==
    \A i \in Requests :
        (Resolved(i) /\ ~Committed(i))
        => LET snapshot == req[i].transactionResult.snapshot
           IN  /\ Len(res[i]) = 1
               /\ (res[i][1] = ConflictAccepted)
                      <=> (snapshot # Null
                           /\ "status" \in DOMAIN snapshot
                           /\ snapshot.status = "in_progress")
               /\ res[i][1] \in {ConflictAccepted, ConflictInactive}

\* One request found the call accepted and another found no record or a
\* record that was not in_progress; each got its own message.
C17_Witness ==
    \E i, j \in Requests :
        /\ i # j
        /\ Resolved(i) /\ ~Committed(i)
        /\ Resolved(j) /\ ~Committed(j)
        /\ Get(req[i].transactionResult.snapshot, "status") = "in_progress"
        /\ Get(req[j].transactionResult.snapshot, "status") # "in_progress"
        /\ res[i] = <<ConflictAccepted>>
        /\ res[j] = <<ConflictInactive>>


\* The record of user u was created ringing, without acceptedByDeviceId.
CreatedRinging(u) ==
    /\ created[u] # Null
    /\ Get(created[u], "status") = "ringing"
    /\ "acceptedByDeviceId" \notin DOMAIN created[u]

HasAcceptor(record) == "acceptedByDeviceId" \in DOMAIN record

\* C18: a record created ringing without acceptedByDeviceId has
\* acceptedByDeviceId exactly when its status is in_progress, and then it
\* is the device of the one request whose transaction committed on it;
\* and one step writes both: the status changes in a step exactly when
\* acceptedByDeviceId appears in it.
C18_AcceptorIffInProgress ==
    /\ [](\A u \in Users :
            CreatedRinging(u)
            => /\ HasAcceptor(activeCall[u])
                      <=> Get(activeCall[u], "status") = "in_progress"
               /\ HasAcceptor(activeCall[u])
                      => /\ Cardinality({i \in Requests :
                                 Won(i) /\ UidOf(i) = u}) = 1
                         /\ \E i \in Requests :
                                /\ Won(i)
                                /\ UidOf(i) = u
                                /\ DeviceOf(i)
                                       = activeCall[u].acceptedByDeviceId)
    /\ [][\A u \in Users :
            CreatedRinging(u)
            => ((Get(activeCall'[u], "status") # Get(activeCall[u], "status"))
                   <=> (HasAcceptor(activeCall'[u])
                        /\ ~HasAcceptor(activeCall[u])))
       ]_vars

\* One user's record was accepted and carries the device of the request
\* that committed; the other user's record still rings and carries none.
C18_Witness ==
    \E i \in Requests, u, v \in Users :
        /\ u # v
        /\ CreatedRinging(u) /\ CreatedRinging(v)
        /\ Committed(i) /\ UidOf(i) = u
        /\ activeCall[u].status = "in_progress"
        /\ activeCall[u].acceptedByDeviceId = DeviceOf(i)
        /\ activeCall[v].status = "ringing"
        /\ ~HasAcceptor(activeCall[v])


\* The accept requests for call c of user u that handed FCM a batch.
RingEndedBatches(u, c) ==
    {i \in Requests :
        IsAccept(i) /\ UidOf(i) = u /\ CallIdOf(i) = c /\ sent[i] # <<>>}

\* C19: in every interleaving of the accept requests for one user and
\* callId at most one of them dispatches, and it dispatches one
\* ring_ended batch, for that callId, naming the acceptedByDeviceId that
\* the record holds; the sender is the request that committed, and no
\* request that did not commit is named unless it came from that device.
C19_OneRingEndedBatch ==
    \A u \in Users, c \in CallIds :
        /\ Cardinality(RingEndedBatches(u, c)) <= 1
        /\ \A i \in RingEndedBatches(u, c) :
               /\ Len(sent[i]) = 1
               /\ sent[i][1].data.type = "ring_ended"
               /\ sent[i][1].data.callId = c
               /\ HasAcceptor(activeCall[u])
               /\ sent[i][1].data.acceptedByDeviceId
                      = activeCall[u].acceptedByDeviceId
               /\ Committed(i)
               /\ \A j \in Attempts(u, c) :
                      (~Committed(j)
                       /\ DeviceOf(j) # activeCall[u].acceptedByDeviceId)
                      => sent[i][1].data.acceptedByDeviceId # DeviceOf(j)

\* Two devices raced for one call; the winner's batch names the winner,
\* the loser, whose first run had accepted, sent nothing.
C19_Witness ==
    \E i, j \in Requests :
        /\ i # j
        /\ Committed(i)
        /\ Resolved(j) /\ ~Committed(j) /\ req[j].runs = 2
        /\ UidOf(i) = UidOf(j) /\ CallIdOf(i) = CallIdOf(j)
        /\ DeviceOf(i) # DeviceOf(j)
        /\ Len(sent[i]) = 1
        /\ sent[i][1].data.acceptedByDeviceId = DeviceOf(i)
        /\ sent[j] = <<>>
        /\ Done(i) /\ Done(j)


\* Request i has arrived and waits on an external call.
Waiting(i) ==
    req[i].pc \in {"transaction", "transaction_write", "transaction_resolved",
                   "once", "sendEachForMulticast"}

\* C20: a request never has two responses; it has one exactly when its
\* handler has ended, with status 200, 400, 409 or 500; a request that
\* has arrived and is not answered is waiting on the transaction, on the
\* read of the devices or on a multicast; and when every awaited call
\* returns or throws, every request that has arrived is eventually
\* answered.
C20_AnsweredExactlyOnce ==
    /\ [](\A i \in Requests :
            /\ Len(res[i]) <= 1
            /\ Done(i) <=> Len(res[i]) = 1
            /\ \A k \in DOMAIN res[i] :
                   res[i][k].status \in {200, 400, 409, 500}
            /\ (req[i].pc # "none" /\ res[i] = <<>>) => Waiting(i))
    /\ \A i \in Requests : (req[i].pc # "none") ~> (Len(res[i]) = 1)

\* A request that went through the three awaited calls and was answered
\* once, beside a request that lost the race and was answered once.
C20_Witness ==
    \E i, j \in Requests :
        /\ i # j
        /\ Committed(i)
        /\ "allDevices" \in DOMAIN req[i]
        /\ "fcmResponse" \in DOMAIN req[i]
        /\ Len(res[i]) = 1 /\ res[i][1].status = 200
        /\ Resolved(j) /\ req[j].runs = 2
        /\ Len(res[j]) = 1 /\ res[j][1].status = 409

=============================================================================
